---- MODULE Spec2Model ----
(***************************************************************************)
(* Wallet authentication of SmartRent (Sign-In With Ethereum).             *)
(*                                                                         *)
(*   backend/app/core/siwe_auth.py         nonce store, message, signature *)
(*                                         recovery, session token         *)
(*   backend/app/api/routes/wallet_auth.py GET /auth/nonce, POST           *)
(*                                         /auth/verify                    *)
(*                                                                         *)
(* Strings that the code inspects character by character (addresses) are   *)
(* sequences of one-character strings.  A request handler is a process     *)
(* whose steps are the statements that read or write the shared nonce      *)
(* store or the clock; statements that only touch locals are folded into   *)
(* the step that precedes them.  Spec interleaves the steps of the         *)
(* processes freely; SeqSpec runs one request at a time.                   *)
(*                                                                         *)
(* Idealisations: secrets.token_hex(16) never repeats a value (a counter), *)
(* and recovering a signature over a text other than the one it was made   *)
(* for yields an address that belongs to no key of the model.              *)
(***************************************************************************)
EXTENDS Integers, Sequences, FiniteSets, TLC

\* ------------------------------------------------------------- bounds
NumProcs == 2
MaxIssues == 2
MaxVerifies == 2
MaxConcurrent == 3
MaxTime == 600
TickSeconds == 300
\* in a behaviour with bearer-protected requests, logouts and restarts: how
\* many of those it has, and how many issue and verify requests
MaxSessionEvents == 2
MaxSessionFlows == 2
\* in a behaviour where every request is served to its end: how many requests
MaxFairRequests == 3

\* ---------------------------------------------------- program constants
NONCE_EXPIRY_SECONDS == 300
JWT_EXPIRY_MINUTES == 1440
POLYGON_CHAIN_ID == 137
HexLen == 40

Procs == 1..NumProcs
Nonces == 1..MaxIssues
Keys == {"alice", "bob"}
None == "None"
\* the None of an Optional[str]: no string of the model has this shape
NoAddress == <<"None">>

\* ------------------------------------------------------------- strings
UpperCase == <<"A", "B", "C", "D", "E", "F", "G", "X">>
LowerCase == <<"a", "b", "c", "d", "e", "f", "g", "x">>
Digits == {"0", "1", "2", "3", "4", "5", "6", "7", "8", "9"}
HexChars == Digits \cup {"a", "b", "c", "d", "e", "f"} \cup {"A", "B", "C", "D", "E", "F"}

\* str.lower() on one character
LowerChar(c) ==
    IF \E i \in DOMAIN UpperCase : UpperCase[i] = c
    THEN LowerCase[CHOOSE i \in DOMAIN UpperCase : UpperCase[i] = c]
    ELSE c

\* str.lower()
Lower(s) == [i \in DOMAIN s |-> LowerChar(s[i])]

\* "0x" + body, right-padded with zeros to HexLen hex characters
HexAddress(body) == <<"0", "x">> \o body \o [i \in 1..(HexLen - Len(body)) |-> "0"]

\* Account.from_key(k).address: the checksummed (mixed-case) address of a key
ChecksumAddress(k) ==
    IF k = "alice" THEN HexAddress(<<"A", "b", "C", "1", "2", "3">>)
    ELSE IF k = "bob" THEN HexAddress(<<"b", "0", "B", "4", "5", "E">>)
    ELSE HexAddress(<<"d", "E", "a", "D">>)

\* re.match(r'^0x[a-fA-F0-9]{40}$', address): "$" also matches before one
\* trailing newline
MatchesPattern(a) ==
    /\ Len(a) \in {HexLen + 2, HexLen + 3}
    /\ a[1] = "0"
    /\ a[2] = "x"
    /\ \A i \in 3..(HexLen + 2) : a[i] \in HexChars
    /\ Len(a) = HexLen + 3 => a[HexLen + 3] = "\n"

validate_eth_address(a) ==
    IF Len(a) = 0 THEN FALSE ELSE MatchesPattern(a)

\* Addresses a caller may put in GET /auth/nonce?address=
AddressInputs ==
    { ChecksumAddress("alice"),
      Lower(ChecksumAddress("bob")),
      <<"0", "x", "A", "b">> }

\* Further strings a caller may put there: an address followed by a line
\* feed, an upper-case prefix, a letter that is no hex digit, one character
\* too many
OddAddressInputs ==
    { ChecksumAddress("alice") \o <<"\n">>,
      <<"0", "X">> \o SubSeq(ChecksumAddress("alice"), 3, HexLen + 2),
      HexAddress(<<"g">>),
      ChecksumAddress("bob") \o <<"0">> }

\* ------------------------------------------------------------ messages
\* The rendered text is determined by the fields substituted in the template.
create_siwe_message(address, nonce, timestamp) ==
    [ domain |-> "smartrent.app",
      address |-> address,
      statement |-> "Sign in to SmartRent - Decentralized Real Estate Platform",
      uri |-> "https://smartrent.app",
      version |-> "1",
      chain_id |-> POLYGON_CHAIN_ID,
      nonce |-> nonce,
      issued_at |-> timestamp ]

\* A text that is no rendered challenge (it embeds no nonce)
OtherText == [ text |-> "hello" ]

\* ---------------------------------------------------------- signatures
\* account.sign_message(encode_defunct(text=m)) by the holder of key k
Sign(k, m) == [ hex0x |-> TRUE, wellformed |-> TRUE, signer |-> k, msg |-> m ]
\* the same signature rendered without the "0x" prefix
SignBare(k, m) == [ hex0x |-> FALSE, wellformed |-> TRUE, signer |-> k, msg |-> m ]
\* "0x" followed by bytes that are no signature
BadSignature == [ hex0x |-> TRUE, wellformed |-> FALSE, signer |-> None, msg |-> OtherText ]

\* the recovered address returned as recover_message gives it (checksummed)
verify_signature_raw(message, signature) ==
    IF ~signature.wellformed THEN NoAddress
    ELSE IF signature.msg = message THEN ChecksumAddress(signature.signer)
    ELSE ChecksumAddress("nobody")

\* Account.recover_message(encode_defunct(text=message), signature).lower(),
\* None when recovery raises
verify_signature(message, signature) ==
    IF ~signature.wellformed THEN NoAddress
    ELSE IF signature.msg = message THEN Lower(ChecksumAddress(signature.signer))
    ELSE Lower(ChecksumAddress("nobody"))

\* ------------------------------------------- the dict _nonce_store
\* A Python dict keeps insertion order: nonce_store is the sequence of its keys
\* and entry[n] the dict object stored under key n.  The object outlives its
\* removal from the store, as a local reference to it (nonce_data) does.
Has(store, n) == \E i \in DOMAIN store : store[i] = n

\* the deletion empties the store
DelAll(store, n) == <<>>
\* the deletion removes nothing
DelNothing(store, n) == store

\* del _nonce_store[n]
RECURSIVE Del(_, _)
Del(store, n) ==
    IF store = <<>> THEN <<>>
    ELSE IF Head(store) = n THEN Tail(store)
    ELSE <<Head(store)>> \o Del(Tail(store), n)

\* the address stored as the caller wrote it
NewEntryRawAddress(address, created_at, message) ==
    [ address |-> address,
      created_at |-> created_at,
      used |-> FALSE,
      message |-> message ]

\* the entry created as already used
NewEntryUsed(address, created_at, message) ==
    [ address |-> Lower(address),
      created_at |-> created_at,
      used |-> TRUE,
      message |-> message ]

\* the value stored by generate_nonce
NewEntry(address, created_at, message) ==
    [ address |-> Lower(address),
      created_at |-> created_at,
      used |-> FALSE,
      message |-> message ]

\* the test of the flag never fires
IsUsedIgnored(nonce_data) == FALSE
\* if nonce_data["used"]
IsUsed(nonce_data) == nonce_data.used

\* the assignment leaves the flag as it was
MarkUsedLost(e) == e

\* _nonce_store[nonce]["used"] = True
MarkUsed(e) == [e EXCEPT !.used = TRUE]

\* the sweep takes every entry, whatever its age
SweepExpiredAll(current_time, created_at) ==
    current_time - created_at >= 0

\* the sweep takes nothing
SweepExpiredNone(current_time, created_at) == FALSE
\* the sweep takes an entry from the moment its age reaches the expiry time
SweepExpiredAtTTL(current_time, created_at) ==
    current_time - created_at >= NONCE_EXPIRY_SECONDS

\* the test of _cleanup_expired_nonces
SweepExpired(current_time, created_at) ==
    current_time - created_at > NONCE_EXPIRY_SECONDS

\* expired from the moment the age reaches the expiry time
NonceExpiredAtTTL(current_time, created_at) ==
    current_time - created_at >= NONCE_EXPIRY_SECONDS

\* the operands of the subtraction swapped
NonceExpiredSwapped(current_time, created_at) ==
    created_at - current_time > NONCE_EXPIRY_SECONDS

\* the test of verify_nonce_and_signature
NonceExpired(current_time, created_at) ==
    current_time - created_at > NONCE_EXPIRY_SECONDS

\* the comparison dropped
AddressMatchesAny(recovered_address, expected_address) ==
    TRUE

\* only the "0x" prefix compared
AddressMatchesPrefix(recovered_address, expected_address) ==
    SubSeq(recovered_address, 1, 2) = SubSeq(expected_address, 1, 2)

\* recovered_address != expected_address, negated
AddressMatches(recovered_address, expected_address) ==
    recovered_address = expected_address

\* ------------------------------------------------------- session token
SECRET_KEY == "server-secret"
ALGORITHM == "HS256"

\* jwt.encode: the claims, and a keyed signature over exactly these claims
jwt_encode(payload, key, algorithm) ==
    [ payload |-> payload,
      mac |-> [ key |-> key, alg |-> algorithm, signed |-> payload ] ]

create_jwt_token(address, t) ==
    [ access_token |->
        jwt_encode([ sub |-> Lower(address),
                     address |-> Lower(address),
                     iat |-> t,
                     exp |-> t + JWT_EXPIRY_MINUTES * 60,
                     type |-> "access",
                     auth_method |-> "siwe" ],
                   SECRET_KEY, ALGORITHM),
      token_type |-> "bearer",
      expires_at |-> t + JWT_EXPIRY_MINUTES * 60,
      expires_in |-> JWT_EXPIRY_MINUTES * 60,
      address |-> Lower(address) ]

\* Python's None where a payload dict is expected
NoPayload == [ none |-> "None" ]
\* a bearer string that is not three base64 segments, and the empty string
GarbageToken == [ text |-> "invalid_token_here" ]
EmptyToken == [ text |-> "" ]

\* jwt.decode without the test of exp
jwt_decode_forever(token, key, algorithm, t) ==
    IF "payload" \notin DOMAIN token
    THEN [ raised |-> "InvalidTokenError", payload |-> NoPayload ]
    ELSE IF token.mac.alg # algorithm
    THEN [ raised |-> "InvalidTokenError", payload |-> NoPayload ]
    ELSE IF token.mac.key # key \/ token.mac.signed # token.payload
    THEN [ raised |-> "InvalidTokenError", payload |-> NoPayload ]
    ELSE [ raised |-> None, payload |-> token.payload ]

\* jwt.decode without the test of the signature
jwt_decode_unsigned(token, key, algorithm, t) ==
    IF "payload" \notin DOMAIN token
    THEN [ raised |-> "InvalidTokenError", payload |-> NoPayload ]
    ELSE IF token.payload.exp <= t
    THEN [ raised |-> "ExpiredSignatureError", payload |-> NoPayload ]
    ELSE [ raised |-> None, payload |-> token.payload ]

\* jwt.decode(token, key, algorithms = [algorithm]) at time t: the exception
\* it raises (None when it returns) and the claims it returns.  A string that
\* is not a token, an algorithm outside the list and a signature that does
\* not match key and claims are InvalidTokenError; a good signature whose
\* exp has passed is ExpiredSignatureError.
jwt_decode(token, key, algorithm, t) ==
    IF "payload" \notin DOMAIN token
    THEN [ raised |-> "InvalidTokenError", payload |-> NoPayload ]
    ELSE IF token.mac.alg # algorithm
    THEN [ raised |-> "InvalidTokenError", payload |-> NoPayload ]
    ELSE IF token.mac.key # key \/ token.mac.signed # token.payload
    THEN [ raised |-> "InvalidTokenError", payload |-> NoPayload ]
    ELSE IF token.payload.exp <= t
    THEN [ raised |-> "ExpiredSignatureError", payload |-> NoPayload ]
    ELSE [ raised |-> None, payload |-> token.payload ]

\* both exceptions are answered with None
verify_jwt_token(token, t) ==
    LET decoded == jwt_decode(token, SECRET_KEY, ALGORITHM, t)
    IN  IF decoded.raised = "ExpiredSignatureError" THEN NoPayload
        ELSE IF decoded.raised = "InvalidTokenError" THEN NoPayload
        ELSE decoded.payload

\* the address claim read without validating the token
get_address_from_token_unverified(token, t) ==
    IF "payload" \in DOMAIN token THEN token.payload.address ELSE NoAddress

get_address_from_token(token, t) ==
    LET payload == verify_jwt_token(token, t)
    IN  IF payload # NoPayload THEN payload.address ELSE NoAddress

\* ------------------------------------------------------ error details
NotFound == "Invalid or expired nonce"
AlreadyUsed == "Nonce already used"
Expired == "Nonce expired"
InvalidSignature == "Invalid signature"
AddressMismatch == "Address mismatch"
MalformedSignature == "Invalid signature format. Must be 0x prefixed."
InvalidAddress == "Invalid Ethereum address format. Must be 0x followed by 40 hex characters."
KeyError == "KeyError"
Ok == "OK"

NotAuthenticated == "Not authenticated. Please sign in with your wallet."
InvalidOrExpiredToken == "Invalid or expired token"
WalletRequired == "Wallet authentication required"
HeaderMissing == "Authorization header missing"
HeaderFormat == "Invalid authorization header format. Use: Bearer <token>"
TokenMissing == "Missing bearer token"

\* ------------------------------------------------ Authorization header
\* A header is the list of parts authorization.split(" ") gives: a scheme
\* (a string) and a token; the absent header is the empty list.
Bearer == <<"B", "e", "a", "r", "e", "r">>
BearerLower == <<"b", "e", "a", "r", "e", "r">>
TokenScheme == <<"T", "o", "k", "e", "n">>
NoHeader == <<>>

\* the claims of a minted token rewritten by its holder, the signature kept
Tampered(token) ==
    [ token EXCEPT !.payload.address = Lower(ChecksumAddress("mallory")),
                   !.payload.sub = Lower(ChecksumAddress("mallory")) ]
\* the same claims signed with a key that is not the server's
Forged(token) == jwt_encode(token.payload, "attacker-secret", ALGORITHM)

\* extract_bearer_token: the HTTPException detail it raises (None when it
\* returns) and the token it returns
extract_bearer_token(authorization) ==
    IF authorization = NoHeader
    THEN [ raised |-> HeaderMissing, token |-> EmptyToken ]
    ELSE IF Len(authorization) # 2
    THEN [ raised |-> HeaderFormat, token |-> EmptyToken ]
    ELSE IF Lower(authorization[1]) # BearerLower
    THEN [ raised |-> HeaderFormat, token |-> EmptyToken ]
    ELSE IF authorization[2] = EmptyToken
    THEN [ raised |-> TokenMissing, token |-> EmptyToken ]
    ELSE [ raised |-> None, token |-> authorization[2] ]

\* --------------------------------------------------------- request.state
\* request.state of a request no middleware has touched: no attribute is set
NoState == [ attached |-> FALSE, wallet_address |-> NoAddress,
             is_authenticated |-> FALSE, token_payload |-> NoPayload ]
Unauthenticated == [ attached |-> TRUE, wallet_address |-> NoAddress,
                     is_authenticated |-> FALSE, token_payload |-> NoPayload ]
\* the principal of one fixed sign-in, whatever the token says
AuthenticatedAsAlice(payload) ==
    [ attached |-> TRUE, wallet_address |-> Lower(ChecksumAddress("alice")),
      is_authenticated |-> TRUE, token_payload |-> payload ]
Authenticated(payload) == [ attached |-> TRUE, wallet_address |-> payload.address,
                            is_authenticated |-> TRUE, token_payload |-> payload ]

\* an exception raised inside the try block of dispatch is not caught
Uncaught(raised) == raised = None
\* ... is caught (pass)
Caught(raised) == TRUE

\* WalletAuthMiddleware.dispatch at time t: whether call_next is reached, and
\* the request.state it is reached with
dispatch(authorization, t) ==
    LET extracted == extract_bearer_token(authorization)
        payload == verify_jwt_token(extracted.token, t)
    IN  IF authorization = NoHeader
        THEN [ passed |-> TRUE, state |-> Unauthenticated ]
        ELSE IF extracted.raised # None
        THEN [ passed |-> Caught(extracted.raised), state |-> Unauthenticated ]
        ELSE IF payload # NoPayload
        THEN [ passed |-> TRUE, state |-> Authenticated(payload) ]
        ELSE [ passed |-> TRUE, state |-> Unauthenticated ]

\* ---------------------------------------------------- the derived checks
\* What a dependency gives its route: status 200 and the value it returns, or
\* the HTTPException it raises.
NoUser == [ none |-> "None" ]
Returns(user) == [ status |-> 200, detail |-> Ok, user |-> user ]
Raises(st, d) == [ status |-> st, detail |-> d, user |-> NoUser ]

\* security.get_current_user
get_current_user(state, authorization, t) ==
    LET extracted == extract_bearer_token(authorization)
        payload == verify_jwt_token(extracted.token, t)
    IN  IF state.attached /\ state.is_authenticated
        THEN Returns([ address |-> state.wallet_address, payload |-> state.token_payload ])
        ELSE IF authorization = NoHeader THEN Raises(401, NotAuthenticated)
        ELSE IF extracted.raised # None THEN Raises(401, extracted.raised)
        ELSE IF payload = NoPayload THEN Raises(401, InvalidOrExpiredToken)
        ELSE Returns([ address |-> payload.address, payload |-> payload ])

\* security.get_optional_user
get_optional_user(state) ==
    IF state.attached /\ state.is_authenticated
    THEN Returns([ address |-> state.wallet_address, payload |-> state.token_payload ])
    ELSE Returns(NoUser)

\* security.require_wallet_address
require_wallet_address(state) ==
    IF state.attached /\ state.is_authenticated
    THEN Returns([ address |-> state.wallet_address ])
    ELSE Raises(401, WalletRequired)

\* wallet_auth.get_current_wallet: the address, or None
get_current_wallet(authorization, t) ==
    LET extracted == extract_bearer_token(authorization)
    IN  IF authorization = NoHeader THEN NoAddress
        ELSE IF extracted.raised # None THEN NoAddress
        ELSE get_address_from_token(extracted.token, t)

\* wallet_auth.require_wallet, the dependency of GET /auth/me
require_wallet(authorization, t) ==
    LET address == get_current_wallet(authorization, t)
    IN  IF address = NoAddress THEN Raises(401, NotAuthenticated)
        ELSE Returns([ address |-> address ])

Checks == { "get_current_user", "get_optional_user", "require_wallet_address",
            "get_current_wallet", "require_wallet" }
\* the checks that read request.state
StateChecks == { "get_current_user", "get_optional_user", "require_wallet_address" }

Check(check, state, authorization, t) ==
    IF check = "get_current_user" THEN get_current_user(state, authorization, t)
    ELSE IF check = "get_optional_user" THEN get_optional_user(state)
    ELSE IF check = "require_wallet_address" THEN require_wallet_address(state)
    ELSE IF check = "require_wallet" THEN require_wallet(authorization, t)
    ELSE LET address == get_current_wallet(authorization, t)
         IN  Returns(IF address = NoAddress THEN NoUser ELSE [ address |-> address ])

\* --------------------------------------------------------------- state
VARIABLES
    now,          \* time.time() / datetime.utcnow(), in seconds
    nonce_store,  \* keys of _nonce_store, in insertion order
    entry,        \* entry[n]: the dict object created for nonce n
    token_count,  \* number of values secrets.token_hex has returned
    sessions,     \* the tokens minted by POST /auth/verify
    pc,           \* pc[p]: the statement request p is at
    req,          \* req[p]: the request p is serving, and what was true when it began
    loc,          \* loc[p]: the locals of p's handler
    resp,         \* resp[p]: the response of p's last finished request
    hist,         \* what finished requests did, and what a restart found
    n_issue,      \* GET /auth/nonce requests started
    n_verify      \* POST /auth/verify requests started

vars == <<now, nonce_store, entry, token_count, sessions, pc, req, loc, resp,
          hist, n_issue, n_verify>>

NoReq == [ op |-> "none" ]
NoLoc == [ expired |-> <<>>, nonce |-> 0, message |-> OtherText, nonce_data |-> 0,
           recovered_address |-> NoAddress, marked |-> 0, state |-> NoState,
           current_time |-> 0 ]
NoResp == [ status |-> 0, detail |-> None ]

Init ==
    /\ now = 0
    /\ nonce_store = <<>>
    /\ entry = <<>>
    /\ token_count = 0
    /\ sessions = {}
    /\ pc = [p \in Procs |-> "idle"]
    /\ req = [p \in Procs |-> NoReq]
    /\ loc = [p \in Procs |-> NoLoc]
    /\ resp = [p \in Procs |-> NoResp]
    /\ hist = [ ok |-> [n \in Nonces |-> 0],
                outcomes |-> [n \in Nonces |-> {}],
                accepted |-> {},
                auths |-> 0, logouts |-> 0, restarts |-> 0,
                rejected |-> {}, lost |-> {}, kept |-> {}, attached |-> {} ]
    /\ n_issue = 0
    /\ n_verify = 0

Idle(p) == pc[p] \in {"idle", "done"}
\* A new request goes to the first free worker, while fewer than cap requests
\* have been started; when requests are served one at a time (alone), only
\* once every worker is free.
Accepts(p, cap, alone) ==
    /\ Idle(p)
    /\ \A q \in Procs : q < p => ~Idle(q)
    /\ alone => \A q \in Procs : Idle(q)
    /\ n_issue + n_verify < cap

\* the clock advances
Tick ==
    /\ now + TickSeconds <= MaxTime
    /\ now' = now + TickSeconds
    /\ UNCHANGED <<nonce_store, entry, token_count, sessions, pc, req, loc, resp,
                   hist, n_issue, n_verify>>

\* ------------------------------------------------ GET /auth/nonce
\* get_nonce, called with one of the addresses in inputs:
\* validate_eth_address, else 400
get_nonce(p, cap, alone, inputs) ==
    /\ Accepts(p, cap, alone)
    /\ n_issue < MaxIssues
    /\ \E address \in inputs :
        /\ req' = [req EXCEPT ![p] = [ op |-> "issue", address |-> address,
                                       id |-> n_issue + n_verify + 1,
                                       before_store |-> nonce_store,
                                       before_used |-> { n \in DOMAIN entry : entry[n].used } ]]
        /\ IF validate_eth_address(address)
           THEN /\ pc' = [pc EXCEPT ![p] = "i_scan"]
                /\ resp' = [resp EXCEPT ![p] = NoResp]
           ELSE /\ pc' = [pc EXCEPT ![p] = "done"]
                /\ resp' = [resp EXCEPT ![p] = [ status |-> 400, detail |-> InvalidAddress ]]
    /\ loc' = [loc EXCEPT ![p] = NoLoc]
    /\ n_issue' = n_issue + 1
    /\ UNCHANGED <<now, nonce_store, entry, token_count, sessions, hist, n_verify>>

BeginIssue(p, cap, alone) == get_nonce(p, cap, alone, AddressInputs)

\* _cleanup_expired_nonces: current_time = time.time() and the list expired
ISweepScan(p) ==
    /\ pc[p] = "i_scan"
    /\ LET expired == SelectSeq(nonce_store,
                                LAMBDA n : SweepExpired(now, entry[n].created_at))
       IN /\ loc' = [loc EXCEPT ![p].expired = expired, ![p].current_time = now]
          /\ pc' = [pc EXCEPT ![p] = IF expired = <<>> THEN "i_nonce" ELSE "i_del"]
    /\ UNCHANGED <<now, nonce_store, entry, token_count, sessions, req, resp,
                   hist, n_issue, n_verify>>

\* _cleanup_expired_nonces: one round of "for nonce in expired: del ..."
ISweepDel(p) ==
    /\ pc[p] = "i_del"
    /\ LET n == Head(loc[p].expired)
           rest == Tail(loc[p].expired)
       IN IF Has(nonce_store, n)
          THEN /\ nonce_store' = Del(nonce_store, n)
               /\ loc' = [loc EXCEPT ![p].expired = rest]
               /\ pc' = [pc EXCEPT ![p] = IF rest = <<>> THEN "i_nonce" ELSE "i_del"]
               /\ resp' = resp
          ELSE /\ nonce_store' = nonce_store
               /\ loc' = loc
               /\ pc' = [pc EXCEPT ![p] = "done"]
               /\ resp' = [resp EXCEPT ![p] = [ status |-> 500, detail |-> KeyError ]]
    /\ UNCHANGED <<now, entry, token_count, sessions, req, hist, n_issue, n_verify>>

\* generate_nonce: nonce = secrets.token_hex(16), timestamp, message
INonce(p) ==
    /\ pc[p] = "i_nonce"
    /\ token_count' = token_count + 1
    /\ loc' = [loc EXCEPT ![p].nonce = token_count + 1,
                          ![p].message =
                              create_siwe_message(req[p].address, token_count + 1, now)]
    /\ pc' = [pc EXCEPT ![p] = "i_store"]
    /\ UNCHANGED <<now, nonce_store, entry, sessions, req, resp, hist, n_issue, n_verify>>

\* generate_nonce: _nonce_store[nonce] = {...}; return; NonceResponse
IStore(p) ==
    /\ pc[p] = "i_store"
    /\ nonce_store' = Append(nonce_store, loc[p].nonce)
    /\ entry' = (loc[p].nonce :> NewEntry(req[p].address, now, loc[p].message)) @@ entry
    /\ resp' = [resp EXCEPT ![p] = [ status |-> 200, detail |-> Ok,
                                     nonce |-> loc[p].nonce,
                                     message |-> loc[p].message,
                                     expires_in |-> NONCE_EXPIRY_SECONDS ]]
    /\ pc' = [pc EXCEPT ![p] = "done"]
    /\ UNCHANGED <<now, token_count, sessions, req, loc, hist, n_issue, n_verify>>

\* ------------------------------------------------ POST /auth/verify
\* What a caller can submit with a nonce: a text it was given or another text,
\* signed over that very text by a key holder; bytes that are no signature; the
\* challenge text with a signature made over another text; a signature without
\* the "0x" prefix.
KnownTexts == { entry[n].message : n \in DOMAIN entry } \cup {OtherText}
Submission(nonce, message, signature) ==
    [ nonce |-> nonce, message |-> message, signature |-> signature ]
VerifyInputs ==
    { Submission(n, m, Sign(k, m)) : n \in Nonces, m \in KnownTexts, k \in Keys }
        \cup { Submission(n, OtherText, BadSignature) : n \in Nonces }
        \cup { Submission(n, entry[n].message, Sign("alice", OtherText)) : n \in DOMAIN entry }
        \cup { Submission(1, OtherText, SignBare("alice", OtherText)) }

\* The request ends with HTTP status st and detail d; the outcome is recorded.
Finish(p, st, d) ==
    /\ pc' = [pc EXCEPT ![p] = "done"]
    /\ resp' = [resp EXCEPT ![p] = [ status |-> st, detail |-> d ]]
    /\ hist' = [hist EXCEPT !.outcomes[req[p].nonce] = @ \cup {d}]

\* verify_signature_endpoint: the "0x" prefix check, else 400
BeginVerify(p, cap, alone) ==
    /\ Accepts(p, cap, alone)
    /\ n_verify < MaxVerifies
    /\ \E in \in VerifyInputs :
            LET nonce == in.nonce
                r == [ op |-> "verify", message |-> in.message,
                       signature |-> in.signature, nonce |-> nonce,
                       id |-> n_issue + n_verify + 1,
                       during |-> { req[q].id : q \in { x \in Procs : ~Idle(x) } },
                       stale |-> /\ nonce \in DOMAIN entry
                                 /\ now - entry[nonce].created_at > NONCE_EXPIRY_SECONDS,
                       ripe |-> /\ nonce \in DOMAIN entry
                                /\ now - entry[nonce].created_at >= NONCE_EXPIRY_SECONDS,
                       stored |-> Has(nonce_store, nonce),
                       before_store |-> nonce_store,
                       before_used |-> { n \in DOMAIN entry : entry[n].used },
                       after |-> hist.outcomes[nonce],
                       replayed |-> <<in.message, in.signature>> \in hist.accepted ]
            IN /\ req' = [req EXCEPT ![p] = r]
               /\ IF in.signature.hex0x
                  THEN /\ pc' = [pc EXCEPT ![p] = "v_lookup"]
                       /\ resp' = [resp EXCEPT ![p] = NoResp]
                       /\ hist' = hist
                  ELSE /\ pc' = [pc EXCEPT ![p] = "done"]
                       /\ resp' = [resp EXCEPT ![p] =
                                      [ status |-> 400, detail |-> MalformedSignature ]]
                       /\ hist' = [hist EXCEPT !.outcomes[nonce] = @ \cup {MalformedSignature}]
    /\ loc' = [loc EXCEPT ![p] = NoLoc]
    /\ n_verify' = n_verify + 1
    /\ UNCHANGED <<now, nonce_store, entry, token_count, sessions, n_issue>>

\* verify_nonce_and_signature: if nonce not in _nonce_store
VLookup(p) ==
    /\ pc[p] = "v_lookup"
    /\ IF Has(nonce_store, req[p].nonce)
       THEN /\ pc' = [pc EXCEPT ![p] = "v_load"]
            /\ UNCHANGED <<resp, hist>>
       ELSE Finish(p, 401, NotFound)
    /\ UNCHANGED <<now, nonce_store, entry, token_count, sessions, req, loc,
                   n_issue, n_verify>>

\* verify_nonce_and_signature: nonce_data = _nonce_store[nonce]
VLoad(p) ==
    /\ pc[p] = "v_load"
    /\ IF Has(nonce_store, req[p].nonce)
       THEN /\ pc' = [pc EXCEPT ![p] = "v_used"]
            /\ loc' = [loc EXCEPT ![p].nonce_data = req[p].nonce]
            /\ UNCHANGED <<resp, hist>>
       ELSE /\ Finish(p, 500, KeyError)
            /\ loc' = loc
    /\ UNCHANGED <<now, nonce_store, entry, token_count, sessions, req,
                   n_issue, n_verify>>

\* verify_nonce_and_signature: if nonce_data["used"]
VUsed(p) ==
    /\ pc[p] = "v_used"
    /\ IF IsUsed(entry[loc[p].nonce_data])
       THEN Finish(p, 401, AlreadyUsed)
       ELSE /\ pc' = [pc EXCEPT ![p] = "v_expiry"]
            /\ UNCHANGED <<resp, hist>>
    /\ UNCHANGED <<now, nonce_store, entry, token_count, sessions, req, loc,
                   n_issue, n_verify>>

\* verify_nonce_and_signature: the expiry test at time.time(); when it passes,
\* verify_signature and the comparison with nonce_data["address"] (locals only)
VExpiry(p) ==
    /\ pc[p] = "v_expiry"
    /\ LET nonce_data == entry[loc[p].nonce_data]
           recovered_address == verify_signature(req[p].message, req[p].signature)
       IN IF NonceExpired(now, nonce_data.created_at)
          THEN /\ pc' = [pc EXCEPT ![p] = "v_del"]
               /\ UNCHANGED <<resp, hist, loc>>
          ELSE IF recovered_address = NoAddress
          THEN /\ Finish(p, 401, InvalidSignature)
               /\ loc' = loc
          ELSE IF ~AddressMatches(recovered_address, nonce_data.address)
          THEN /\ Finish(p, 401, AddressMismatch)
               /\ loc' = [loc EXCEPT ![p].recovered_address = recovered_address]
          ELSE /\ pc' = [pc EXCEPT ![p] = "v_mark"]
               /\ loc' = [loc EXCEPT ![p].recovered_address = recovered_address]
               /\ UNCHANGED <<resp, hist>>
    /\ UNCHANGED <<now, nonce_store, entry, token_count, sessions, req,
                   n_issue, n_verify>>

\* verify_nonce_and_signature: del _nonce_store[nonce]; "Nonce expired"
VDel(p) ==
    /\ pc[p] = "v_del"
    /\ IF Has(nonce_store, req[p].nonce)
       THEN /\ nonce_store' = Del(nonce_store, req[p].nonce)
            /\ Finish(p, 401, Expired)
       ELSE /\ nonce_store' = nonce_store
            /\ Finish(p, 500, KeyError)
    /\ UNCHANGED <<now, entry, token_count, sessions, req, loc, n_issue, n_verify>>

\* verify_nonce_and_signature: _nonce_store[nonce]["used"] = True
VMark(p) ==
    /\ pc[p] = "v_mark"
    /\ IF Has(nonce_store, req[p].nonce)
       THEN /\ entry' = [entry EXCEPT ![req[p].nonce] = MarkUsed(@)]
            /\ loc' = [loc EXCEPT ![p].marked = req[p].nonce]
            /\ pc' = [pc EXCEPT ![p] = "v_token"]
            /\ UNCHANGED <<resp, hist>>
       ELSE /\ Finish(p, 500, KeyError)
            /\ UNCHANGED <<entry, loc>>
    /\ UNCHANGED <<now, nonce_store, token_count, sessions, req, n_issue, n_verify>>

\* verify_signature_endpoint: create_jwt_token(result["address"]); TokenResponse
VToken(p) ==
    /\ pc[p] = "v_token"
    /\ LET token_data == create_jwt_token(loc[p].recovered_address, now)
       IN /\ sessions' = sessions \cup {token_data.access_token}
          /\ resp' = [resp EXCEPT ![p] =
                         [ status |-> 200, detail |-> Ok, body |-> token_data ]]
    /\ pc' = [pc EXCEPT ![p] = "done"]
    /\ hist' = [hist EXCEPT !.ok[req[p].nonce] = @ + 1,
                            !.outcomes[req[p].nonce] = @ \cup {Ok},
                            !.accepted = @ \cup {<<req[p].message, req[p].signature>>}]
    /\ UNCHANGED <<now, nonce_store, entry, token_count, req, loc, n_issue, n_verify>>

\* ------------------------------------------------------ specifications
Step(p, cap, alone) ==
    \/ BeginIssue(p, cap, alone)
    \/ ISweepScan(p)
    \/ ISweepDel(p)
    \/ INonce(p)
    \/ IStore(p)
    \/ BeginVerify(p, cap, alone)
    \/ VLookup(p)
    \/ VLoad(p)
    \/ VUsed(p)
    \/ VExpiry(p)
    \/ VDel(p)
    \/ VMark(p)
    \/ VToken(p)

\* requests served concurrently: their steps interleave
Next == Tick \/ \E p \in Procs : Step(p, MaxConcurrent, FALSE)
Spec == Init /\ [][Next]_vars

\* requests served one at a time: a request begins when no other is in progress
SeqNext == Tick \/ \E p \in Procs : Step(p, MaxIssues + MaxVerifies, TRUE)
SeqSpec == Init /\ [][SeqNext]_vars

\* GET /auth/nonce alone, one request at a time, with the wider inputs
BeginIssueAny(p) == get_nonce(p, MaxIssues, TRUE, AddressInputs \cup OddAddressInputs)
IssueNext ==
    \/ Tick
    \/ \E p \in Procs : \/ BeginIssueAny(p)
                        \/ ISweepScan(p)
                        \/ ISweepDel(p)
                        \/ INonce(p)
                        \/ IStore(p)
IssueSpec == Init /\ [][IssueNext]_vars

\* ----------------------------------------------- bearer-protected routes
\* Headers a caller may send: none, a string that is no token, and what the
\* holder of a minted token can make of it.
AuthHeaders ==
    { NoHeader, <<Bearer, GarbageToken>> }
        \cup { <<Bearer, token>> : token \in sessions }
        \cup { <<TokenScheme, token>> : token \in sessions }
        \cup { <<Bearer, Tampered(token)>> : token \in sessions }
        \cup { <<Bearer, Forged(token)>> : token \in sessions }

SessionEvents == hist.auths + hist.logouts + hist.restarts
AcceptsAlone(p) ==
    /\ Idle(p)
    /\ \A q \in Procs : q < p => ~Idle(q)
    /\ \A q \in Procs : Idle(q)
    /\ SessionEvents < MaxSessionEvents

\* A request to a route that depends on one of the checks arrives, once some
\* sign-in has succeeded.  The checks of security.py take a Request and also
\* serve an application that has not installed the middleware (prepass FALSE).
BeginAuth(p) ==
    /\ AcceptsAlone(p)
    /\ sessions # {}
    /\ \E check \in Checks, authorization \in AuthHeaders, prepass \in BOOLEAN :
        /\ check \notin StateChecks => prepass
        /\ req' = [req EXCEPT ![p] = [ op |-> "auth", check |-> check,
                                       authorization |-> authorization,
                                       prepass |-> prepass,
                                       started_at |-> now,
                                       rejected |-> hist.rejected,
                                       logouts |-> hist.logouts,
                                       restarts |-> hist.restarts ]]
        /\ pc' = [pc EXCEPT ![p] = IF prepass THEN "a_dispatch" ELSE "a_check"]
    /\ loc' = [loc EXCEPT ![p] = NoLoc]
    /\ resp' = [resp EXCEPT ![p] = NoResp]
    /\ hist' = [hist EXCEPT !.auths = @ + 1]
    /\ UNCHANGED <<now, nonce_store, entry, token_count, sessions, n_issue, n_verify>>

\* WalletAuthMiddleware.dispatch up to call_next
ADispatch(p) ==
    /\ pc[p] = "a_dispatch"
    /\ LET d == dispatch(req[p].authorization, now)
       IN  IF d.passed
           THEN /\ loc' = [loc EXCEPT ![p].state = d.state]
                /\ pc' = [pc EXCEPT ![p] = "a_check"]
                /\ resp' = resp
                /\ hist' = [hist EXCEPT !.attached =
                               IF d.state.is_authenticated
                               THEN @ \cup {d.state.wallet_address} ELSE @]
           ELSE /\ loc' = loc
                /\ pc' = [pc EXCEPT ![p] = "done"]
                /\ resp' = [resp EXCEPT ![p] = Raises(401, extract_bearer_token(req[p].authorization).raised)]
                /\ hist' = hist
    /\ UNCHANGED <<now, nonce_store, entry, token_count, sessions, req, n_issue, n_verify>>

\* the dependency of the route; hist.rejected collects the minted tokens
\* refused past their exp
ACheck(p) ==
    /\ pc[p] = "a_check"
    /\ LET r == Check(req[p].check, loc[p].state, req[p].authorization, now)
           presented == IF Len(req[p].authorization) = 2
                        THEN {req[p].authorization[2]} \cap sessions
                        ELSE {}
       IN  /\ resp' = [resp EXCEPT ![p] = r]
           /\ hist' = [hist EXCEPT !.rejected =
                          IF r.status = 401
                          THEN @ \cup { token \in presented : token.payload.exp <= now }
                          ELSE @]
    /\ pc' = [pc EXCEPT ![p] = "done"]
    /\ UNCHANGED <<now, nonce_store, entry, token_count, sessions, req, loc, n_issue, n_verify>>

\* what POST /auth/logout leaves of the store
AfterLogoutCleared(store) == <<>>
AfterLogout(store) == store

\* POST /auth/logout
Logout(p) ==
    /\ AcceptsAlone(p)
    /\ req' = [req EXCEPT ![p] = [ op |-> "logout", store_before |-> nonce_store,
                                   sessions_before |-> sessions ]]
    /\ nonce_store' = AfterLogout(nonce_store)
    /\ pc' = [pc EXCEPT ![p] = "done"]
    /\ resp' = [resp EXCEPT ![p] = [ status |-> 200, detail |-> Ok,
                                     body |-> [ message |-> "Logged out successfully" ] ]]
    /\ loc' = [loc EXCEPT ![p] = NoLoc]
    /\ hist' = [hist EXCEPT !.logouts = @ + 1]
    /\ UNCHANGED <<now, entry, token_count, sessions, n_issue, n_verify>>

\* the module is imported again: _nonce_store = {}
ReimportKept(store) == store
Reimport(store) == <<>>

\* The server process is restarted: requests in flight are lost, the store
\* starts empty, SECRET_KEY is read from the same settings.
Restart ==
    /\ SessionEvents < MaxSessionEvents
    /\ nonce_store' = Reimport(nonce_store)
    /\ pc' = [p \in Procs |-> "idle"]
    /\ req' = [p \in Procs |-> NoReq]
    /\ loc' = [p \in Procs |-> NoLoc]
    /\ resp' = [p \in Procs |-> NoResp]
    /\ hist' = [hist EXCEPT !.restarts = @ + 1, !.lost = DOMAIN entry, !.kept = sessions]
    /\ UNCHANGED <<now, entry, token_count, sessions, n_issue, n_verify>>

\* a day less one tick passes, and the clock then ticks past the day
DaySeconds == JWT_EXPIRY_MINUTES * 60 - TickSeconds
Elapse ==
    /\ now < DaySeconds
    /\ now' = now + DaySeconds
    /\ UNCHANGED <<nonce_store, entry, token_count, sessions, pc, req, loc, resp,
                   hist, n_issue, n_verify>>
LateTick ==
    /\ now >= DaySeconds
    /\ now + TickSeconds <= DaySeconds + 2 * TickSeconds
    /\ now' = now + TickSeconds
    /\ UNCHANGED <<nonce_store, entry, token_count, sessions, pc, req, loc, resp,
                   hist, n_issue, n_verify>>

AuthStep(p) ==
    \/ BeginAuth(p)
    \/ ADispatch(p)
    \/ ACheck(p)
    \/ Logout(p)

\* Sign-in, then bearer-protected requests, logouts and a restart over more
\* than a day, one request at a time.
SessionNext ==
    \/ Elapse
    \/ LateTick
    \/ Restart
    \/ \E p \in Procs : Step(p, MaxSessionFlows, TRUE)
    \/ \E p \in Procs : AuthStep(p)
SessionSpec == Init /\ [][SessionNext]_vars

\* ================================================================ claims
VerifyDone(p) == pc[p] = "done" /\ req[p].op = "verify"
Succeeded(p) == VerifyDone(p) /\ resp[p].status = 200
Issued(n) == n \in DOMAIN entry
\* the address GET /auth/nonce was called with for nonce n, as the caller wrote it
RequestedAddress(n) == entry[n].message.address
\* p's submission is the text rendered for its nonce, signed by the holder of
\* the key of the address the challenge was requested for
CorrectlySigned(p) ==
    /\ Issued(req[p].nonce)
    /\ req[p].message = entry[req[p].nonce].message
    /\ \E k \in Keys :
        /\ Lower(ChecksumAddress(k)) = Lower(RequestedAddress(req[p].nonce))
        /\ req[p].signature = Sign(k, req[p].message)
\* p's signature recovers to the address its challenge is bound to
SignedByBound(p) ==
    /\ Issued(req[p].nonce)
    /\ req[p].signature.hex0x
    /\ verify_signature(req[p].message, req[p].signature)
           = Lower(RequestedAddress(req[p].nonce))
\* the requests of p and q overlapped in time
Concurrent(p, q) == req[p].id \in req[q].during \/ req[q].id \in req[p].during

\* C1: two verify requests for the same nonce that ran concurrently, both with a
\* valid signature by the bound address, never both succeed: one of them fails
\* with "Nonce already used".
C1_ConcurrentVerifyOnce ==
    \A p, q \in Procs :
        ( /\ p # q
          /\ VerifyDone(p) /\ VerifyDone(q)
          /\ req[p].nonce = req[q].nonce
          /\ Concurrent(p, q)
          /\ SignedByBound(p) /\ SignedByBound(q)
          /\ Succeeded(p) )
        => resp[q].status = 401 /\ resp[q].detail = AlreadyUsed

\* C2: served one at a time, each nonce is the subject of at most one successful
\* verify: a verify that begins after one succeeded for its nonce does not succeed.
C2_AtMostOneSuccess ==
    /\ \A n \in Nonces : hist.ok[n] <= 1
    /\ \A p \in Procs : VerifyDone(p) /\ Ok \in req[p].after => resp[p].status # 200

\* a correctly signed verify was refused because its nonce had been verified before
C2_Witness ==
    \E p \in Procs :
        /\ VerifyDone(p)
        /\ Ok \in req[p].after
        /\ CorrectlySigned(p)
        /\ resp[p].status = 401

\* C3 as stated: a verify for a nonce that was already verified successfully
\* fails with "Nonce already used", whatever happened in between.
C3_AlwaysAlreadyUsed ==
    \A p \in Procs :
        VerifyDone(p) /\ Ok \in req[p].after /\ req[p].signature.hex0x
        => resp[p].status = 401 /\ resp[p].detail = AlreadyUsed

\* C3 amended: such a verify fails with "Nonce already used" while the challenge
\* is still in the store and with "Invalid or expired nonce" once it is gone,
\* which happens only to a challenge older than the expiry time; it never ends
\* with "Nonce expired".
C3_AlreadyUsedOrNotFound ==
    \A p \in Procs :
        VerifyDone(p) /\ Ok \in req[p].after /\ req[p].signature.hex0x
        => /\ resp[p].status = 401
           /\ resp[p].detail = IF req[p].stored THEN AlreadyUsed ELSE NotFound
           /\ ~req[p].stored => req[p].stale

\* a verify of a used nonce was answered "Invalid or expired nonce" after a sweep
C3_Witness ==
    \E p \in Procs :
        /\ VerifyDone(p)
        /\ Ok \in req[p].after
        /\ CorrectlySigned(p)
        /\ resp[p].detail = NotFound

\* the nonce embedded in a submitted text, 0 when it embeds none
EmbeddedNonce(m) == IF "nonce" \in DOMAIN m THEN m.nonce ELSE 0

\* C4: a verify succeeds only if the submitted text is the one rendered and
\* stored for the presented nonce, so the nonce it embeds is the presented one.
C4_MessageBoundToNonce ==
    \A p \in Procs :
        Succeeded(p)
        => /\ EmbeddedNonce(req[p].message) = req[p].nonce
           /\ req[p].message = entry[req[p].nonce].message

\* C5: a (message, signature) pair that verify accepted once is never accepted
\* again, with whatever nonce it is submitted.
C5_NoReplay ==
    \A p \in Procs : VerifyDone(p) /\ req[p].replayed => resp[p].status # 200

SignedByOther(p) ==
    /\ Issued(req[p].nonce)
    /\ req[p].signature.hex0x
    /\ req[p].signature.wellformed
    /\ Lower(verify_signature(req[p].message, req[p].signature))
           # Lower(RequestedAddress(req[p].nonce))

\* C7: a verify whose signature recovers to a signer other than the bound address
\* never succeeds, and when the challenge passes the store checks (present,
\* unused, not expired) it fails with "Address mismatch"; every successful
\* verify returns the bound address of the presented nonce.
C7_MismatchRejected ==
    \A p \in Procs :
        /\ ( VerifyDone(p) /\ SignedByOther(p) )
           => /\ resp[p].status # 200
              /\ resp[p].detail \in {AddressMismatch, NotFound, AlreadyUsed, Expired, KeyError}
              /\ loc[p].recovered_address # NoAddress => resp[p].detail = AddressMismatch
        /\ Succeeded(p)
           => /\ resp[p].body.address = entry[req[p].nonce].address
              /\ resp[p].body.address = Lower(RequestedAddress(req[p].nonce))

\* a verify of a live challenge, signed by another key holder over the challenge
\* text, was answered "Address mismatch"
C7_Witness ==
    \E p \in Procs :
        /\ VerifyDone(p)
        /\ SignedByOther(p)
        /\ req[p].message = entry[req[p].nonce].message
        /\ req[p].signature.signer = "bob"
        /\ resp[p].status = 401
        /\ resp[p].detail = AddressMismatch

\* p verifies, with a correct signature, a challenge that no verify has used or
\* reported expired and that was older than the expiry time when p began
StaleUnused(p) ==
    /\ CorrectlySigned(p)
    /\ req[p].stale
    /\ req[p].after \cap {Ok, Expired} = {}

\* C8 as stated: such a verify fails with "Nonce expired", also when an issue
\* call swept the store in between.
C8_AlwaysExpired ==
    \A p \in Procs :
        VerifyDone(p) /\ StaleUnused(p)
        => resp[p].status = 401 /\ resp[p].detail = Expired

\* C8 amended: such a verify never succeeds; it fails with "Nonce expired" when
\* the challenge is still in the store and with "Invalid or expired nonce" when
\* the sweep of an issue call has removed it.
C8_ExpiredOrNotFound ==
    \A p \in Procs :
        VerifyDone(p) /\ StaleUnused(p)
        => /\ resp[p].status = 401
           /\ resp[p].detail = IF req[p].stored THEN Expired ELSE NotFound

\* a correctly signed verify of a swept, never used challenge was answered
\* "Invalid or expired nonce"
C8_Witness ==
    \E p \in Procs :
        /\ VerifyDone(p)
        /\ StaleUnused(p)
        /\ ~req[p].stored
        /\ resp[p].detail = NotFound

\* C9: the text returned by issue for an address, signed with that address's key
\* and submitted with the returned nonce for the first time while the challenge
\* is not older than the expiry time, verifies, and the address returned is the
\* requested one in lower case.
C9_RoundTrip ==
    \A p \in Procs :
        ( /\ VerifyDone(p)
          /\ CorrectlySigned(p)
          /\ Ok \notin req[p].after
          /\ now - entry[req[p].nonce].created_at <= NONCE_EXPIRY_SECONDS )
        => /\ resp[p].status = 200
           /\ resp[p].body.address = Lower(RequestedAddress(req[p].nonce))

\* a challenge requested with a mixed-case address was verified and the address
\* came back in lower case
C9_Witness ==
    \E p \in Procs :
        /\ Succeeded(p)
        /\ CorrectlySigned(p)
        /\ RequestedAddress(req[p].nonce) # Lower(RequestedAddress(req[p].nonce))
        /\ resp[p].body.address = Lower(RequestedAddress(req[p].nonce))

\* C10: a token is minted only by a verify request that passed every check: the
\* request marked its challenge used and the token carries that challenge's
\* bound address; a request that fails returns no token, and every minted token
\* carries the bound address of a challenge that is marked used.
C10_TokenOnlyAfterVerify ==
    /\ \A p \in Procs :
        VerifyDone(p)
        => IF resp[p].status = 200
           THEN /\ loc[p].marked = req[p].nonce
                /\ entry[req[p].nonce].used
                /\ resp[p].body.access_token \in sessions
                /\ resp[p].body.access_token.payload.address = entry[req[p].nonce].address
           ELSE "body" \notin DOMAIN resp[p]
    /\ \A t \in sessions :
        \E n \in DOMAIN entry : entry[n].used /\ t.payload.address = entry[n].address

\* a verify request returned a token and another one failed without one
C10_Witness ==
    \E p, q \in Procs :
        /\ Succeeded(p)
        /\ resp[p].body.access_token \in sessions
        /\ VerifyDone(q)
        /\ resp[q].status = 401

\* ---------------------------------------------------- session claims
AuthDone(p) == pc[p] = "done" /\ req[p].op = "auth"
\* the request carries "Bearer <token>"
HasBearer(p) == Len(req[p].authorization) = 2 /\ req[p].authorization[1] = Bearer
Presented(p) == req[p].authorization[2]
\* ... with a token exactly as POST /auth/verify returned it
PresentsMinted(p) == HasBearer(p) /\ Presented(p) \in sessions
\* the checks that must authenticate, where they can see the header or the
\* outcome of the pre-pass
Mandatory == { "get_current_user", "require_wallet_address", "require_wallet" }
MandatoryRuns(p) ==
    \/ req[p].check \in { "get_current_user", "require_wallet" }
    \/ req[p].check = "require_wallet_address" /\ req[p].prepass
Optional == { "get_optional_user", "get_current_wallet" }
NotSigned == { GarbageToken } \cup { Tampered(t) : t \in sessions } \cup { Forged(t) : t \in sessions }

\* C11: a mandatory check that returns an address was presented a token
\* exactly as the server signed it, and returns the address in its claims; a
\* token whose claims were rewritten, that was signed with another key or
\* that is no token fails validation and is answered 401.
C11_OnlySignedClaims ==
    /\ \A token \in NotSigned : verify_jwt_token(token, now) = NoPayload
    /\ \A p \in Procs :
        AuthDone(p) /\ req[p].check \in Mandatory =>
            /\ resp[p].status = 200 =>
                /\ PresentsMinted(p)
                /\ resp[p].user.address = Presented(p).payload.address
            /\ HasBearer(p) /\ Presented(p) \in NotSigned =>
                resp[p].status = 401 /\ resp[p].user = NoUser
C11_Witness ==
    \E p \in Procs :
        /\ AuthDone(p) /\ req[p].check = "require_wallet"
        /\ HasBearer(p)
        /\ \E t \in sessions : Presented(p) = Tampered(t) /\ now < t.payload.exp
        /\ resp[p].status = 401

\* a request presented a minted token after its exp
PresentedExpired(p) ==
    AuthDone(p) /\ PresentsMinted(p) /\ Presented(p).payload.exp < req[p].started_at

\* C12 as stated: validating a minted token after its exp fails with an
\* outcome that differs from the outcome for a token that is not signed.
C12_ExpiredDistinguishable ==
    \A p \in Procs :
        PresentedExpired(p) =>
            /\ verify_jwt_token(Presented(p), now) # Presented(p).payload
            /\ \A token \in NotSigned :
                verify_jwt_token(Presented(p), now) # verify_jwt_token(token, now)

\* C13: a mandatory check presented a minted token T answers with T's
\* address while the clock is before T's exp, answers 401 when the request
\* arrives after T's exp, and answers 401 whenever T was refused past its exp
\* before.
C13_TokenLifetime ==
    \A p \in Procs :
        AuthDone(p) /\ MandatoryRuns(p) /\ PresentsMinted(p) =>
            /\ now < Presented(p).payload.exp =>
                /\ resp[p].status = 200
                /\ resp[p].user.address = Presented(p).payload.address
            /\ req[p].started_at > Presented(p).payload.exp => resp[p].status = 401
            /\ Presented(p) \in req[p].rejected => resp[p].status = 401
C13_Witness ==
    \E p \in Procs :
        /\ AuthDone(p) /\ req[p].check = "get_current_user" /\ PresentsMinted(p)
        /\ Presented(p) \in req[p].rejected
        /\ resp[p].status = 401

\* C14: the pre-pass hands every request on: past it, the request carries a
\* recorded outcome, which is "authenticated" only for a minted token that
\* arrived before its exp, and is "authenticated" for every minted token
\* still before its exp.
C14_PrepassNeverRejects ==
    \A p \in Procs :
        req[p].op = "auth" /\ req[p].prepass /\ pc[p] # "a_dispatch" =>
            /\ loc[p].state.attached
            /\ loc[p].state.is_authenticated =>
                /\ Len(req[p].authorization) = 2
                /\ Presented(p) \in sessions
                /\ req[p].started_at < Presented(p).payload.exp
                /\ loc[p].state.wallet_address = Presented(p).payload.address
            /\ PresentsMinted(p) /\ now < Presented(p).payload.exp =>
                loc[p].state.is_authenticated
C14_Witness ==
    \E p \in Procs :
        /\ req[p].op = "auth" /\ req[p].prepass /\ pc[p] = "a_check"
        /\ Len(req[p].authorization) = 2 /\ req[p].authorization[1] = TokenScheme
        /\ loc[p].state.attached /\ ~loc[p].state.is_authenticated

C16_SameWithoutPrepass ==
    \A p \in Procs :
        AuthDone(p) /\ req[p].check \in StateChecks /\ req[p].started_at = now =>
            resp[p] = Check(req[p].check,
                            IF req[p].prepass THEN NoState
                            ELSE dispatch(req[p].authorization, now).state,
                            req[p].authorization, now)

\* ------------------------------------------------- interface claims
\* "0x" followed by exactly HexLen hex characters
WellFormedAddress(a) ==
    /\ Len(a) = HexLen + 2
    /\ a[1] = "0" /\ a[2] = "x"
    /\ \A i \in 3..(HexLen + 2) : a[i] \in HexChars

\* C17: an issue request whose address is not "0x" followed by exactly 40 hex
\* characters is answered 400 InvalidAddress at once, without a step that
\* reads or writes the store, and no challenge is ever created for such an
\* address.
C17_InvalidAddressRejected ==
    /\ \A p \in Procs :
        req[p].op = "issue" /\ ~WellFormedAddress(req[p].address) =>
            /\ pc[p] = "done"
            /\ resp[p].status = 400 /\ resp[p].detail = InvalidAddress
    /\ \A n \in DOMAIN entry : WellFormedAddress(RequestedAddress(n))

Taxonomy == { MalformedSignature, NotFound, AlreadyUsed, Expired, InvalidSignature,
              AddressMismatch }

\* C18: every POST /auth/verify that fails is answered 401 with a reason of
\* the taxonomy.
C18_FailuresAre401 ==
    \A p \in Procs :
        VerifyDone(p) /\ resp[p].status # 200 =>
            resp[p].status = 401 /\ resp[p].detail \in Taxonomy

C20_RestartLosesChallengesOnly ==
    \A p \in Procs :
        /\ VerifyDone(p) /\ req[p].nonce \in hist.lost =>
            /\ resp[p].status # 200
            /\ req[p].signature.hex0x =>
                resp[p].status = 401 /\ resp[p].detail = NotFound
        /\ AuthDone(p) /\ MandatoryRuns(p) /\ HasBearer(p) /\ Presented(p) \in hist.kept
             /\ now < Presented(p).payload.exp =>
                /\ resp[p].status = 200
                /\ resp[p].user.address = Presented(p).payload.address
C20_Witness ==
    \E p \in Procs :
        /\ VerifyDone(p) /\ req[p].nonce \in hist.lost
        /\ CorrectlySigned(p)
        /\ resp[p].detail = NotFound

\* ---------------------------------------------------- store claims
\* C21: a challenge is created with used false; its flag is true only when a
\* verify of it has marked it and goes on to return success; once true the
\* flag stays true.
C21_UsedFlag ==
    /\ [](\A n \in DOMAIN entry :
            entry[n].used =>
                \/ hist.ok[n] >= 1
                \/ \E p \in Procs : pc[p] = "v_token" /\ req[p].nonce = n)
    /\ [][\A n \in DOMAIN entry' :
            /\ n \notin DOMAIN entry => ~entry'[n].used
            /\ n \in DOMAIN entry /\ entry[n].used => entry'[n].used]_vars
C21_Witness ==
    \E n \in DOMAIN entry :
        /\ Has(nonce_store, n)
        /\ entry[n].used
        /\ hist.ok[n] = 1

\* the flags that are set
UsedNow == { n \in DOMAIN entry : entry[n].used }
\* a store without nonce n, the other keys in their order
Without(store, n) == SelectSeq(store, LAMBDA m : m # n)
\* p's verify reached verify_nonce_and_signature
Consumed(p) == VerifyDone(p) /\ req[p].signature.hex0x

C23_CheckOrder ==
    \A p \in Procs :
        Consumed(p) =>
            /\ ~req[p].stored => resp[p].detail = NotFound
            /\ req[p].stored /\ Ok \in req[p].after => resp[p].detail = AlreadyUsed
C23_Witness ==
    \E p \in Procs :
        /\ Consumed(p)
        /\ req[p].stored /\ Ok \in req[p].after /\ req[p].stale
        /\ resp[p].detail = AlreadyUsed

\* C24: when a verify has failed with "Nonce expired" the store is what it
\* was without that nonce, no flag has changed, and a later verify with the
\* nonce fails with "Invalid or expired nonce".
C24_ExpiredRemoves ==
    \A p \in Procs :
        /\ Consumed(p) /\ resp[p].detail = Expired =>
            /\ Has(req[p].before_store, req[p].nonce)
            /\ nonce_store = Without(req[p].before_store, req[p].nonce)
            /\ UsedNow = req[p].before_used
        /\ Consumed(p) /\ Expired \in req[p].after => resp[p].detail = NotFound
C24_Witness ==
    \E p \in Procs :
        /\ Consumed(p) /\ Expired \in req[p].after
        /\ resp[p].detail = NotFound
        /\ nonce_store # <<>>

\* p's GET /auth/nonce returned a challenge
IssueDone(p) == pc[p] = "done" /\ req[p].op = "issue" /\ resp[p].status = 200
\* the age of challenge n at the clock reading the sweep of p's call took
AgeAtSweep(p, n) == loc[p].current_time - entry[n].created_at

\* C25: when an issue call has returned a challenge, the store holds no
\* challenge, used or not, whose age at the sweep's clock reading exceeded
\* the expiry time, and it holds the new challenge: a key the store did not
\* have, used false, bound to the requested address in lower case.
C25_SweptThenStored ==
    \A p \in Procs :
        IssueDone(p) =>
            /\ \A n \in DOMAIN entry :
                Has(nonce_store, n) => AgeAtSweep(p, n) <= NONCE_EXPIRY_SECONDS
            /\ Has(nonce_store, resp[p].nonce)
            /\ ~Has(req[p].before_store, resp[p].nonce)
            /\ ~entry[resp[p].nonce].used
            /\ entry[resp[p].nonce].address = Lower(req[p].address)
C25_Witness ==
    \E p \in Procs :
        /\ IssueDone(p)
        /\ \E n \in req[p].before_used :
            Has(req[p].before_store, n) /\ ~Has(nonce_store, n)

\* C30: an issue call leaves every challenge that was not older than the
\* expiry time at its sweep in the store with its flag as it was; no step
\* ever changes the address, the message or the creation time of a challenge;
\* and a correctly signed first verify of a challenge not older than the
\* expiry time succeeds whatever other challenges its address has.
C30_IssueKeepsFresh ==
    /\ [](\A p \in Procs :
            /\ IssueDone(p) =>
                \A n \in DOMAIN entry :
                    Has(req[p].before_store, n) /\ AgeAtSweep(p, n) <= NONCE_EXPIRY_SECONDS =>
                        /\ Has(nonce_store, n)
                        /\ entry[n].used <=> n \in req[p].before_used
            /\ ( /\ Consumed(p) /\ CorrectlySigned(p) /\ Ok \notin req[p].after
                 /\ now - entry[req[p].nonce].created_at <= NONCE_EXPIRY_SECONDS
                 /\ \E m \in DOMAIN entry :
                        m # req[p].nonce /\ RequestedAddress(m) = RequestedAddress(req[p].nonce) )
               => resp[p].status = 200)
    /\ [][\A n \in DOMAIN entry :
            /\ entry'[n].address = entry[n].address
            /\ entry'[n].message = entry[n].message
            /\ entry'[n].created_at = entry[n].created_at]_vars
\* two challenges of one address, the later one verified first
C30_Witness ==
    \E p \in Procs :
        /\ Succeeded(p) /\ req[p].nonce = 1
        /\ Issued(2) /\ hist.ok[2] = 1
        /\ RequestedAddress(1) = RequestedAddress(2)

\* A handler that has begun runs to its return: the steps of p's request
\* after its first one.
Running(p) ==
    \/ ISweepScan(p)
    \/ ISweepDel(p)
    \/ INonce(p)
    \/ IStore(p)
    \/ VLookup(p)
    \/ VLoad(p)
    \/ VUsed(p)
    \/ VExpiry(p)
    \/ VDel(p)
    \/ VMark(p)
    \/ VToken(p)
\* requests served one at a time, each one served to its end; no request is
\* ever bound to arrive and the clock is not bound to advance
FairSeqNext == Tick \/ \E p \in Procs : Step(p, MaxFairRequests, TRUE)
FairSeqSpec == Init /\ [][FairSeqNext]_vars /\ \A p \in Procs : WF_vars(Running(p))

\* challenge n is in the store and no verify has consumed it
Abandoned(n) == Has(nonce_store, n) /\ ~entry[n].used
\* an issue call has passed validation and is about to sweep
Sweeping(p) == pc[p] = "i_scan"

\* C26: a challenge nobody verified, older than the expiry time when an issue
\* call starts its sweep, is out of the store eventually; and a challenge
\* leaves the store only in the sweep of an issue call that found it older
\* than the expiry time or in a verify of it that answers Expired: no other
\* step, the passing of time included, removes one.
C26_AbandonedSwept ==
    /\ \A n \in Nonces :
        (\E p \in Procs :
            /\ Sweeping(p)
            /\ n \in DOMAIN entry /\ Abandoned(n)
            /\ now - entry[n].created_at > NONCE_EXPIRY_SECONDS)
        ~> ~(n \in DOMAIN entry /\ Has(nonce_store, n))
    /\ [][\A n \in DOMAIN entry :
            Has(nonce_store, n) /\ ~Has(nonce_store', n) =>
                \E p \in Procs :
                    \/ /\ pc[p] = "i_del"
                       /\ Head(loc[p].expired) = n
                       /\ AgeAtSweep(p, n) > NONCE_EXPIRY_SECONDS
                    \/ /\ pc[p] = "v_del"
                       /\ req[p].nonce = n
                       /\ resp'[p].detail = Expired]_vars
\* a challenge no verify was ever sent for, swept by a later issue call
C26_Witness ==
    \E p \in Procs :
        /\ IssueDone(p)
        /\ \E n \in DOMAIN entry :
            /\ Has(req[p].before_store, n) /\ ~Has(nonce_store, n)
            /\ ~entry[n].used
            /\ hist.outcomes[n] = {}

\* C27: with the statements of concurrent issue and verify calls interleaved,
\* no call ends in the KeyError that deleting, loading or marking a key
\* another call has removed raises.
C27_NoUnhandledException ==
    \A p \in Procs : pc[p] = "done" => resp[p].detail # KeyError

\* p's request is past the pre-pass
PastPrepass(p) == req[p].op = "auth" /\ req[p].prepass /\ pc[p] \in {"a_check", "done"} /\ loc[p].state.attached

ReadOnlyFailures == { NotFound, AlreadyUsed, InvalidSignature, AddressMismatch }
StoreAsBefore(p) == nonce_store = req[p].before_store /\ UsedNow = req[p].before_used

\* C29: a verify answered NotFound, AlreadyUsed, InvalidSignature or
\* AddressMismatch leaves the keys of the store, their order and every used
\* flag as they were when it arrived; a failing verify after which the store
\* differs was answered Expired, and one answered Expired did change it.
C29_FailuresLeaveStore ==
    \A p \in Procs :
        VerifyDone(p) =>
            /\ resp[p].detail \in ReadOnlyFailures => StoreAsBefore(p)
            /\ resp[p].status # 200 /\ ~StoreAsBefore(p) => resp[p].detail = Expired
            /\ resp[p].detail = Expired => ~StoreAsBefore(p)
\* a wrongly signed verify of a pending challenge, which stays pending
C29_Witness ==
    \E p \in Procs :
        /\ VerifyDone(p)
        /\ resp[p].detail \in { InvalidSignature, AddressMismatch }
        /\ Has(nonce_store, req[p].nonce)
        /\ ~entry[req[p].nonce].used
        /\ hist.ok[req[p].nonce] = 0

====
